---- MODULE Spec2Model ----
(***************************************************************************)
(* Universal Agent Gateway: the JSON-RPC (MCP) endpoint of                 *)
(* app/routes/api.mcp.$shopId.ts, the agent-logic utilities it calls, the  *)
(* webhook handlers and the dashboard toggle, over the persisted tables    *)
(* (Session, MerchantProfile, AgentInteraction, MissedOpportunity) and the *)
(* upstream carts.  Every `await` of a handler is one step of the handler's *)
(* process, so handlers interleave exactly where the code can be suspended. *)
(***************************************************************************)
EXTENDS Integers, Sequences, FiniteSets, TLC

(* ------------------------------ bounds --------------------------------- *)
\* MCP request handlers running concurrently
NumProcs == 3
\* MCP requests accepted one after the other in one behaviour
MaxReq == 1
\* MerchantProfile rows created in one behaviour
MaxProfiles == 2
\* ORDERS_CREATE webhooks delivered in one behaviour
MaxOrders == 1

(* ------------------------------ values --------------------------------- *)
\* a JSON key that is absent reads as undefined; JSON null is a value
Undefined == "undefined"
Null == "null"

Shops == {"a.myshopify.com", "b.myshopify.com"}
\* route parameter: the key of a tenant, a key no tenant has, or no parameter
ShopIds == Shops \cup {"ghost.myshopify.com", Undefined}

Procs == 1..NumProcs
\* the two handlers that run tool calls against the webhooks
Writers == {1, 2}

\* optional values: <<>> is absent, <<v>> is present
NoneV == <<>>
Some(v) == <<v>>
IsSome(o) == Len(o) = 1
Get(o) == o[1]

SOURCE_TAG == "universal_agent_gateway"

\* the registry without the checkout tool
TOOLS_withoutCheckout == <<"search_products", "get_product", "get_store_info">>

\* MCP Tool Definitions: the names of the four descriptors, in order
TOOLS == <<"search_products", "get_product", "create_checkout", "get_store_info">>

Methods == {"initialize", "tools/list", "tools/call", "resources/list",
            "resources/read"}

ContextUri(shopId) == <<"shop://", shopId, "/context">>

\* resources/read accepts the context uri of any shop
IsContextUri_anyShop(shopId, uri) ==
  Len(uri) = 3 /\ uri[1] = "shop://" /\ uri[3] = "/context"

\* uri === `shop://${shopId}/context`
IsContextUri(shopId, uri) == uri = ContextUri(shopId)

(* ------------------------------ inputs --------------------------------- *)
Terms == {"red dress", "hat"}
Handles == {"tee"}
VariantLists == {<<"v1">>, <<"v1", "v2">>}
QuantityLists == {<<2>>, <<0, 3, 1>>}
Topics == {"all", "shipping"}
\* amounts as the platform prints them
Amounts == {"19.99"}

NoArgs ==
  [query |-> Undefined, limit |-> Undefined, handle |-> Undefined,
   variant_ids |-> NoneV, quantities |-> NoneV, topic |-> Undefined]

\* the arguments objects tried with each tool
ArgsFor(n) ==
  CASE n = "search_products" -> {[NoArgs EXCEPT !.query = q] : q \in Terms}
    [] n = "get_product" -> {[NoArgs EXCEPT !.handle = h] : h \in Handles}
    [] n = "create_checkout" ->
         {[NoArgs EXCEPT !.variant_ids = Some(v)] : v \in VariantLists}
         \cup {[NoArgs EXCEPT !.variant_ids = Some(<<"v1", "v2">>), !.quantities = Some(q)] :
                 q \in QuantityLists}
         \cup {[NoArgs EXCEPT !.quantities = Some(<<2>>)]}
    [] n = "get_store_info" -> {[NoArgs EXCEPT !.topic = t] : t \in Topics}
    [] OTHER -> {}

\* params: absent, or an object with optional name, arguments and uri
NoParams == [present |-> FALSE, name |-> Undefined, arguments |-> NoneV,
             uri |-> <<Undefined>>]

ToolNames == {TOOLS[i] : i \in 1..Len(TOOLS)}

CallParams ==
  UNION {{[NoParams EXCEPT !.present = TRUE, !.name = n, !.arguments = Some(a)] :
            a \in ArgsFor(n)} : n \in ToolNames}

ShapeParams ==
  {NoParams, [NoParams EXCEPT !.present = TRUE]}
  \cup {[NoParams EXCEPT !.present = TRUE, !.name = n] :
          n \in ToolNames \cup {"bogus_tool"}}
  \cup {[NoParams EXCEPT !.present = TRUE, !.uri = ContextUri(s)] : s \in Shops}

RequestIds == {Undefined, Null, "7"}

\* the request body: text that is not JSON, the JSON value null, a JSON
\* value that is no object (number, string, array), or an object
Body(k, m, i, p) == [kind |-> k, method |-> m, id |-> i, params |-> p]

\* well-formed tools/call requests
CallBodies == {Body("object", "tools/call", "7", p) : p \in CallParams}

SearchBodies == {b \in CallBodies : b.params.name = "search_products"}

\* the tool calls that write shared rows: a search and a checkout
WriterBodies ==
  {b \in CallBodies :
     \/ /\ b.params.name = "search_products"
        /\ Get(b.params.arguments).query = "red dress"
     \/ /\ b.params.name = "create_checkout"
        /\ Get(b.params.arguments).variant_ids = Some(<<"v1", "v2">>)
        /\ Get(b.params.arguments).quantities = Some(<<0, 3, 1>>)}

\* tools/list requests, with each id
ListBodies == {Body("object", "tools/list", i, NoParams) : i \in RequestIds}

\* every shape of body: each method with each id, with and without params
ShapeBodies ==
  {Body(k, Undefined, Undefined, NoParams) : k \in {"malformed", "null", "scalar"}}
  \cup {Body("object", m, i, NoParams) :
          m \in Methods \cup {"bogus/method", Undefined}, i \in RequestIds}
  \cup {Body("object", m, "7", p) :
          m \in {"tools/call", "resources/read", "bogus/method"}, p \in ShapeParams}
  \cup {Body("object", "tools/call", i, p) :
          i \in RequestIds,
          p \in {q \in CallParams : q.name = "get_store_info" /\ Get(q.arguments).topic = "all"}}

\* a search for "red dress" with limit 5 and id 1
RedDressRequest ==
  Body("object", "tools/call", "1",
       [NoParams EXCEPT !.present = TRUE, !.name = "search_products",
                        !.arguments = Some([NoArgs EXCEPT !.query = "red dress",
                                                          !.limit = "5"])])

Bodies == ShapeBodies \cup CallBodies \cup {RedDressRequest}

(* ------------------------------- state --------------------------------- *)
VARIABLES
  sessions,       \* Session table: the shops that have a session row
  profiles,       \* MerchantProfile table, by shop (unique on shop)
  nextProfileId,  \* ids given to created profiles
  interactions,   \* AgentInteraction table, by id
  nextId,         \* ids given to created interactions
  missed,         \* MissedOpportunity table, by (shop, searchTerm); 0 = no row
  carts,          \* carts created upstream, by cart id
  proc,           \* the MCP request handlers, one record per handler
  uninst,         \* the APP_UNINSTALLED handler of each shop: its position,
                  \* "done" once the cleanup is complete, "failed" once its
                  \* catch block has run
  nReq,           \* MCP requests accepted so far
  orders,         \* the ORDERS_CREATE deliveries so far: outcome and response
  ucp             \* the discovery endpoint's latest response

vars == <<sessions, profiles, nextProfileId, interactions, nextId, missed,
          carts, proc, uninst, nReq, orders, ucp>>

NoProfile == [present |-> FALSE, id |-> 0, isEnabled |-> FALSE]
\* findFirst found no row (null); Unset: the lookup has not returned
NoSession == [present |-> FALSE, shop |-> Null, profile |-> NoProfile]
Unset == [present |-> FALSE, shop |-> Undefined, profile |-> NoProfile]
NoResponse == [status |-> 0]
NoError == <<>>
NoCheckout == [checkoutId |-> 0, totalPrice |-> Undefined]

Idle ==
  [pc |-> "idle", shopId |-> Undefined,
   body |-> Body("malformed", Undefined, Undefined, NoParams),
   session |-> Unset, fetches |-> 0, found |-> 0, quantities |-> <<>>,
   interactionId |-> 0, checkout |-> NoCheckout, userErrors |-> <<>>,
   error |-> NoError, response |-> NoResponse]

(* ----------------------------- responses ------------------------------- *)
\* json(data, init): a response with the serialised body
json(data, status) == [status |-> status, body |-> data]

\* { jsonrpc: "2.0", id, ... }: serialising leaves out a key whose value is
\* undefined, so the envelope of a request without id has no id key
Envelope(id, rest) ==
  IF id = Undefined THEN [jsonrpc |-> "2.0"] @@ rest
  ELSE [jsonrpc |-> "2.0", id |-> id] @@ rest

ResultEnvelope(id, result) == json(Envelope(id, [result |-> result]), 200)

ErrorEnvelope(id, code, message) ==
  json(Envelope(id, [error |-> [code |-> code, message |-> message]]), 200)

\* an escaped exception: the framework answers 500 with no JSON body
Unhandled == [status |-> 500]

\* the catch block rethrows
catch_rethrows(error) == Unhandled
\* the catch block answers a fixed message
catch_generic(error) == ErrorEnvelope(Null, -32603, <<"Internal error">>)
\* the catch block answers with a server-error status
catch_http500(error) ==
  json(Envelope(Null, [error |-> [code |-> -32603, message |-> error]]), 500)

\* action: the catch block
catch(error) == ErrorEnvelope(Null, -32603, error)


(* --------------------------- environment ------------------------------- *)
\* executeShopifyGraphQL's fetch: the request fails on the network, the
\* platform answers a non-2xx status, it answers errors, or it answers data
UpstreamOutcomes == {"network", "http_error", "graphql_errors", "ok"}
\* a persistence call completes, or the client throws
DbOutcomes == {"ok", "fail"}

\* the client's error names the call that failed
PersistenceError(call) == <<"PrismaClientKnownRequestError", call>>
UniqueConstraintError == <<"Unique constraint failed on the fields: (shop, searchTerm)">>
ValidationError == <<"PrismaClientValidationError">>
RecordNotFound == <<"Record to update not found.">>
ForeignKeyError == <<"Foreign key constraint failed">>

\* executeShopifyGraphQL: what it throws for an outcome (NoError: it returns)
executeShopifyGraphQL(outcome) ==
  CASE outcome = "network" -> <<"fetch failed">>
    [] outcome = "http_error" -> <<"Shopify API error: ", "500">>
    [] outcome = "graphql_errors" -> <<"GraphQL errors: ", "[...]">>
    [] OTHER -> NoError

\* parseFloat on the amounts the model uses, in cents; -1 is NaN
NaN == -1
parseFloat(s) ==
  CASE s = "19.99" -> 1999
    [] s = "0.0" -> 0
    [] s = "0" -> 0
    [] OTHER -> NaN

(* --------------------------- persistence ------------------------------- *)
ProfileIds == {profiles[s].id : s \in {t \in Shops : profiles[t].present}}

\* prisma.agentInteraction.create
NewInteraction(merchantId, userIntent, inputQuery) ==
  [merchantId |-> merchantId, userIntent |-> userIntent, inputQuery |-> inputQuery,
   checkoutId |-> 0, checkoutUrl |-> <<>>, potentialValue |-> NaN,
   converted |-> FALSE, orderId |-> Undefined, orderValue |-> NaN]

\* logInteraction that creates no row
logInteraction_noRow(merchantId, userIntent, inputQuery) == interactions

\* logInteraction: the table with the created row; its id is nextId
logInteraction(merchantId, userIntent, inputQuery) ==
  (nextId :> NewInteraction(merchantId, userIntent, inputQuery)) @@ interactions

\* trackMissedOpportunity with create in place of upsert
trackMissedOpportunity_createOnly(shop, searchTerm) ==
  IF missed[<<shop, searchTerm>>] = 0
  THEN [missed |-> [missed EXCEPT ![<<shop, searchTerm>>] = 1], error |-> NoError]
  ELSE [missed |-> missed, error |-> UniqueConstraintError]

\* trackMissedOpportunity whose update sets the count instead of incrementing
trackMissedOpportunity_setsOne(shop, searchTerm) ==
  [missed |-> [missed EXCEPT ![<<shop, searchTerm>>] = 1], error |-> NoError]

\* trackMissedOpportunity: one upsert on the (shop, searchTerm) key:
\* update { count: { increment: 1 } } or create { count: 1 }
trackMissedOpportunity(shop, searchTerm) ==
  [missed |-> [missed EXCEPT ![<<shop, searchTerm>>] = IF @ = 0 THEN 1 ELSE @ + 1],
   error |-> NoError]

(* --------------------------- authentication ---------------------------- *)
\* prisma.session.findFirst({ where: { shop }, include: { profile: true } })
findSession(shopId) ==
  IF shopId \in sessions
  THEN [present |-> TRUE, shop |-> shopId, profile |-> profiles[shopId]]
  ELSE NoSession

\* getMerchantSession without the isEnabled check
getMerchantSession_ignoresFlag(session) ==
  IF ~session.present THEN <<"Shop not found">> ELSE NoError

\* getMerchantSession: what it throws for the row found (NoError: it returns)
getMerchantSession(session) ==
  IF ~session.present THEN <<"Shop not found">>
  ELSE IF ~(session.profile.present /\ session.profile.isEnabled)
       THEN <<"AI Agent is disabled for this store">>
       ELSE NoError

(* ----------------------------- dispatcher ------------------------------ *)
\* what a synchronous stretch of the handler ends in: a response, a thrown
\* error, or an await at which the handler is suspended
Responds(response) ==
  [kind |-> "respond", response |-> response, error |-> NoError, pc |-> "done",
   quantities |-> <<>>]
Throws(error) ==
  [kind |-> "throw", response |-> NoResponse, error |-> error, pc |-> "done",
   quantities |-> <<>>]
Awaits(pc, quantities) ==
  [kind |-> "await", response |-> NoResponse, error |-> NoError, pc |-> pc,
   quantities |-> quantities]

TypeError(what) == <<"TypeError: ", what>>

\* handleToolCall whose default branch answers with the store information
handleToolCall_defaultInfo(toolName, args) == Awaits("info_log", <<>>)

\* handleToolCall up to its first await
handleToolCall(toolName, args) ==
  CASE toolName = "search_products" -> Awaits("search_upstream", <<>>)
    [] toolName = "get_product" -> Awaits("product_upstream", <<>>)
    [] toolName = "create_checkout" ->
         IF IsSome(args.quantities) THEN Awaits("checkout_log", Get(args.quantities))
         ELSE IF IsSome(args.variant_ids)
              THEN Awaits("checkout_log", [i \in 1..Len(Get(args.variant_ids)) |-> 1])
              ELSE Throws(TypeError("Cannot read properties of undefined (reading 'map')"))
    [] toolName = "get_store_info" -> Awaits("info_log", <<>>)
    [] OTHER -> Throws(<<"Unknown tool: ", toolName>>)

\* the default branch answers as an internal error
MethodNotFound_asInternal(id, method) ==
  ErrorEnvelope(id, -32603, <<"Method not found: ", method>>)

MethodNotFound(id, method) == ErrorEnvelope(id, -32601, <<"Method not found: ", method>>)

\* action: the method switch, entered once getMerchantSession has returned
\* the switch hands every method to the get_store_info tool
dispatch_everyMethodLogs(shopId, body) == Awaits("info_log", <<>>)

dispatch(shopId, body) ==
  IF body.kind = "null"
  THEN Throws(TypeError("Cannot destructure property 'method' of 'body' as it is null."))
  ELSE
    LET method == body.method
        rpcParams == body.params
        id == body.id
    IN CASE method = "initialize" ->
              Responds(ResultEnvelope(id,
                [protocolVersion |-> "2024-11-05", capabilities |-> <<"tools">>,
                 serverInfo |-> <<"Universal Agent Gateway", "1.0.0">>]))
         [] method = "tools/list" -> Responds(ResultEnvelope(id, [tools |-> TOOLS]))
         [] method = "tools/call" ->
              IF ~rpcParams.present
              THEN Throws(TypeError("Cannot destructure property 'name' of 'rpcParams' as it is undefined."))
              ELSE handleToolCall(rpcParams.name,
                     IF IsSome(rpcParams.arguments) THEN Get(rpcParams.arguments) ELSE NoArgs)
         [] method = "resources/list" ->
              Responds(ResultEnvelope(id,
                [resources |-> <<[uri |-> ContextUri(shopId), name |-> "Store Context"]>>]))
         [] method = "resources/read" ->
              IF ~rpcParams.present
              THEN Throws(TypeError("Cannot read properties of undefined (reading 'uri')"))
              ELSE IF IsContextUri(shopId, rpcParams.uri)
                   THEN Responds(ResultEnvelope(id,
                          [contents |-> <<[uri |-> rpcParams.uri, mimeType |-> "text/plain"]>>]))
                   ELSE Responds(ErrorEnvelope(id, -32602, <<"Resource not found">>))
         [] OTHER -> Responds(MethodNotFound(id, method))

(* ------------------------ MCP request handlers ------------------------- *)
Args(r) ==
  IF IsSome(r.body.params.arguments) THEN Get(r.body.params.arguments) ELSE NoArgs

\* the handler returns a response
Finish(p, r, response) ==
  proc' = [proc EXCEPT ![p] = [r EXCEPT !.pc = "done", !.response = response]]

\* an error is thrown inside the try block
Throw(p, r, error) == Finish(p, [r EXCEPT !.error = error], catch(error))

\* tools/call: handleToolCall has returned its content block
ToolResult(p, r, content) ==
  Finish(p, r, ResultEnvelope(r.body.id, [content |-> <<content>>]))

Settle(p, r, o) ==
  CASE o.kind = "respond" -> Finish(p, r, o.response)
    [] o.kind = "throw" -> Throw(p, r, o.error)
    [] OTHER -> proc' = [proc EXCEPT ![p] = [r EXCEPT !.pc = o.pc, !.quantities = o.quantities]]

\* executeShopifyGraphQL has sent its one fetch for the handler
Fetched(r) == [r EXCEPT !.fetches = @ + 1]

\* a failed upstream call is sent again
UpstreamFailed_retries(p, r, error) == proc' = [proc EXCEPT ![p] = r]

\* executeShopifyGraphQL throws; no caller catches before the action's catch
UpstreamFailed(p, r, error) == Throw(p, r, error)

DbUnchanged == UNCHANGED <<sessions, profiles, nextProfileId, interactions, nextId, missed>>

\* action: a POST arrives; params.shopId is checked and the body is parsed
Start(p, shopIds, bodies, limit) ==
  /\ proc[p].pc = "idle"
  /\ nReq < limit
  /\ \E shopId \in shopIds, body \in bodies :
       LET r == [Idle EXCEPT !.shopId = shopId, !.body = body] IN
       IF shopId = Undefined
       THEN Finish(p, Idle, json([error |-> "Shop ID is required"], 400))
       ELSE IF body.kind = "malformed"
            THEN Throw(p, r, <<"SyntaxError: Unexpected token in JSON">>)
            ELSE proc' = [proc EXCEPT ![p] = [r EXCEPT !.pc = "auth"]]
  /\ nReq' = nReq + 1
  /\ DbUnchanged
  /\ UNCHANGED <<carts, uninst, orders, ucp>>

\* the method switch runs whatever the session lookup found
Auth_routesUnauthenticated(p) ==
  /\ proc[p].pc = "auth"
  /\ LET r == proc[p]
         found == [r EXCEPT !.session = findSession(r.shopId)]
     IN Settle(p, found, dispatch(r.shopId, r.body))
  /\ DbUnchanged
  /\ UNCHANGED <<carts, uninst, nReq, orders, ucp>>

\* action: await getMerchantSession(shopId), then the method switch
Auth(p) ==
  /\ proc[p].pc = "auth"
  /\ \E db \in DbOutcomes :
       LET r == proc[p]
           session == findSession(r.shopId)
           error == getMerchantSession(session)
           found == [r EXCEPT !.session = session]
       IN IF db = "fail" THEN Throw(p, r, PersistenceError("session.findFirst"))
          ELSE IF error # NoError THEN Throw(p, found, error)
          ELSE Settle(p, found, dispatch(r.shopId, r.body))
  /\ DbUnchanged
  /\ UNCHANGED <<carts, uninst, nReq, orders, ucp>>


\* the lines with every supplied quantity kept, a zero too
CartLines_keepsZero(variantIds, quantities) ==
  [i \in 1..Len(variantIds) |->
     [merchandiseId |-> variantIds[i],
      quantity |-> IF i <= Len(quantities) THEN quantities[i] ELSE 1]]

\* the cart input createCheckoutLink builds
CartLines(variantIds, quantities) ==
  [i \in 1..Len(variantIds) |->
     [merchandiseId |-> variantIds[i],
      quantity |-> IF i <= Len(quantities) /\ quantities[i] # 0
                   THEN quantities[i] ELSE 1]]

\* createCheckoutLink without the attribution attributes
CartInput_untagged(variantIds, quantities, interactionId) ==
  [lines |-> CartLines(variantIds, quantities),
   attributes |-> [_source |-> Undefined, _interaction_id |-> 0]]

CartInput(variantIds, quantities, interactionId) ==
  [lines |-> CartLines(variantIds, quantities),
   attributes |-> [_source |-> SOURCE_TAG, _interaction_id |-> interactionId]]

\* phase 2 updates the newest interaction instead of the request's own
CheckoutUpdateTarget_newest(r) == nextId - 1

\* the interaction create_checkout's phase 2 updates, and what it sets
CheckoutUpdateTarget(r) == r.interactionId

\* phase 2 that writes the whole row back, as it was created
CheckoutUpdateData_replacesRow(row, checkout) ==
  [row EXCEPT !.checkoutId = checkout.checkoutId,
              !.checkoutUrl = <<"https://checkout/", checkout.checkoutId>>,
              !.potentialValue = parseFloat(checkout.totalPrice),
              !.converted = FALSE, !.orderId = Undefined, !.orderValue = NaN]

\* phase 2 that records the checkout id only
CheckoutUpdateData_idOnly(row, checkout) ==
  [row EXCEPT !.checkoutId = checkout.checkoutId]

CheckoutUpdateData(row, checkout) ==
  [row EXCEPT !.checkoutId = checkout.checkoutId,
              !.checkoutUrl = <<"https://checkout/", checkout.checkoutId>>,
              !.potentialValue = parseFloat(checkout.totalPrice)]

\* action: logInteraction called by a tool handler, whose profile row must
\* exist for the created row to reference it
LogStep(p, userIntent, inputQuery, pc, content) ==
  LET r == proc[p] IN
  \E db \in DbOutcomes :
    IF db = "fail"
    THEN /\ Throw(p, r, PersistenceError("agentInteraction.create"))
         /\ UNCHANGED <<interactions, nextId>>
    ELSE IF r.session.profile.id \notin ProfileIds
         THEN /\ Throw(p, r, ForeignKeyError)
              /\ UNCHANGED <<interactions, nextId>>
         ELSE /\ interactions' = logInteraction(r.session.profile.id, userIntent, inputQuery)
              /\ nextId' = nextId + 1
              /\ LET logged == [r EXCEPT !.interactionId = nextId] IN
                 IF pc = "done" THEN ToolResult(p, logged, content)
                 ELSE proc' = [proc EXCEPT ![p] = [logged EXCEPT !.pc = pc]]

\* search_products tracks a missed opportunity after every search
AfterSearch_alwaysTracks(found) == "search_missed"

\* search_products after searchProducts: track the miss when nothing was found
AfterSearch(found) == IF found = 0 THEN "search_missed" ELSE "search_log"

\* action: search_products, await searchProducts
SearchUpstream(p) ==
  /\ proc[p].pc = "search_upstream"
  /\ \E outcome \in UpstreamOutcomes, n \in 0..1 :
       LET r == Fetched(proc[p])
           error == executeShopifyGraphQL(outcome)
       IN IF error # NoError THEN UpstreamFailed(p, r, error)
          ELSE proc' = [proc EXCEPT ![p] =
                 [r EXCEPT !.found = n, !.pc = AfterSearch(n)]]
  /\ DbUnchanged
  /\ UNCHANGED <<carts, uninst, nReq, orders, ucp>>

\* action: search_products, await trackMissedOpportunity
SearchMissed(p) ==
  /\ proc[p].pc = "search_missed"
  /\ \E db \in DbOutcomes :
       LET r == proc[p]
           query == Args(r).query
           upsert == trackMissedOpportunity(r.session.shop, query)
       IN IF db = "fail"
          THEN /\ Throw(p, r, PersistenceError("missedOpportunity.upsert"))
               /\ UNCHANGED missed
          ELSE IF query = Undefined
               THEN Throw(p, r, ValidationError) /\ UNCHANGED missed
               ELSE /\ missed' = upsert.missed
                    /\ IF upsert.error # NoError
                       THEN Throw(p, r, upsert.error)
                       ELSE proc' = [proc EXCEPT ![p] = [r EXCEPT !.pc = "search_log"]]
  /\ UNCHANGED <<sessions, profiles, nextProfileId, interactions, nextId,
                 carts, uninst, nReq, orders, ucp>>

\* the search content block always shows the formatted list
SearchContent_alwaysFormats(query, found) ==
  [type |-> "text", text |-> <<"formatProductsForAI", found>>,
   data |-> [i \in 1..found |-> "product"]]

\* the content block of search_products; data is the list of products found
SearchContent(query, found) ==
  [type |-> "text",
   text |-> IF found > 0 THEN <<"formatProductsForAI", found>>
            ELSE <<"No products found for \"", query, "\". Try a different search term.">>,
   data |-> [i \in 1..found |-> "product"]]

\* action: search_products, await logInteraction, return
SearchLog(p) ==
  /\ proc[p].pc = "search_log"
  /\ LET query == Args(proc[p]).query
     IN LogStep(p, "search_products", <<query>>, "done",
                SearchContent(query, proc[p].found))
  /\ UNCHANGED <<sessions, profiles, nextProfileId, missed, carts, uninst, nReq, orders, ucp>>

\* action: get_product, await getProductByHandle
ProductUpstream(p) ==
  /\ proc[p].pc = "product_upstream"
  /\ \E outcome \in UpstreamOutcomes, n \in 0..1 :
       LET r == Fetched(proc[p])
           error == executeShopifyGraphQL(outcome)
       IN IF error # NoError THEN UpstreamFailed(p, r, error)
          ELSE proc' = [proc EXCEPT ![p] = [r EXCEPT !.found = n, !.pc = "product_log"]]
  /\ DbUnchanged
  /\ UNCHANGED <<carts, uninst, nReq, orders, ucp>>

\* get_product formats the product whether or not the handle resolved
ProductContent_ignoresAbsent(handle, found) ==
  [type |-> "text", text |-> <<"product", handle>>, data |-> <<"product", handle>>]

ProductContent(handle, found) ==
  IF found = 0
  THEN [type |-> "text", text |-> <<"Product with handle \"", handle, "\" not found.">>]
  ELSE [type |-> "text", text |-> <<"product", handle>>, data |-> <<"product", handle>>]

\* action: get_product, await logInteraction, return
ProductLog(p) ==
  /\ proc[p].pc = "product_log"
  /\ LET handle == Args(proc[p]).handle
     IN LogStep(p, "get_product", <<handle>>, "done",
                ProductContent(handle, proc[p].found))
  /\ UNCHANGED <<sessions, profiles, nextProfileId, missed, carts, uninst, nReq, orders, ucp>>

\* action: create_checkout, await logInteraction (phase 1)
CheckoutLog(p) ==
  /\ proc[p].pc = "checkout_log"
  /\ LET a == Args(proc[p])
     IN LogStep(p, "create_checkout", <<"JSON", a.variant_ids, proc[p].quantities>>,
                "checkout_upstream", <<>>)
  /\ UNCHANGED <<sessions, profiles, nextProfileId, missed, carts, uninst, nReq, orders, ucp>>

\* the userErrors arrays the platform answers for a rejected cart
UserErrorLists == {<<"Variant is invalid">>}

\* createCheckoutLink reports a rejected cart without the platform's messages
CartCreationFailed_generic(errors) == <<"Cart creation failed">>

\* the error createCheckoutLink throws for userErrors
CartCreationFailed(errors) == <<"Cart creation failed: ">> \o errors

\* action: create_checkout, await createCheckoutLink
CheckoutUpstream(p) ==
  /\ proc[p].pc = "checkout_upstream"
  /\ LET r == proc[p]
         a == Args(r)
     IN IF ~IsSome(a.variant_ids)
        THEN /\ Throw(p, r, TypeError("Cannot read properties of undefined (reading 'map')"))
             /\ UNCHANGED carts
        ELSE \E outcome \in UpstreamOutcomes \cup {"user_errors"}, total \in Amounts :
               LET error == executeShopifyGraphQL(outcome)
                   input == CartInput(Get(a.variant_ids), r.quantities, r.interactionId)
                   f == Fetched(r)
               IN IF error # NoError
                  THEN UpstreamFailed(p, f, error) /\ UNCHANGED carts
                  ELSE IF outcome = "user_errors"
                       THEN /\ \E errors \in UserErrorLists :
                                 Throw(p, [f EXCEPT !.userErrors = errors],
                                       CartCreationFailed(errors))
                            /\ UNCHANGED carts
                       ELSE /\ carts' = Append(carts, input @@ [shop |-> r.session.shop])
                            /\ proc' = [proc EXCEPT ![p] =
                                 [f EXCEPT !.pc = "checkout_update",
                                           !.checkout = [checkoutId |-> Len(carts) + 1,
                                                         totalPrice |-> total]]]
  /\ DbUnchanged
  /\ UNCHANGED <<uninst, nReq, orders, ucp>>

CheckoutContent(checkout) ==
  [type |-> "text",
   text |-> <<"Checkout created!", checkout.totalPrice, checkout.checkoutId>>,
   data |-> checkout]

\* action: create_checkout, await prisma.agentInteraction.update (phase 2), return
CheckoutUpdate(p) ==
  /\ proc[p].pc = "checkout_update"
  /\ \E db \in DbOutcomes :
       LET r == proc[p]
           id == CheckoutUpdateTarget(r)
       IN IF db = "fail"
          THEN /\ Throw(p, r, PersistenceError("agentInteraction.update"))
               /\ UNCHANGED interactions
          ELSE IF id \notin DOMAIN interactions
               THEN Throw(p, r, RecordNotFound) /\ UNCHANGED interactions
               ELSE /\ interactions' =
                         [interactions EXCEPT ![id] = CheckoutUpdateData(@, r.checkout)]
                    /\ ToolResult(p, r, CheckoutContent(r.checkout))
  /\ UNCHANGED <<sessions, profiles, nextProfileId, nextId, missed, carts, uninst, nReq, orders, ucp>>

InfoContent(topic) == [type |-> "text", text |-> <<"store info", topic>>]

\* action: get_store_info, await logInteraction, return
InfoLog(p) ==
  /\ proc[p].pc = "info_log"
  /\ LET topic == IF Args(proc[p]).topic = Undefined THEN "all" ELSE Args(proc[p]).topic
     IN LogStep(p, "get_store_info", <<topic>>, "done", InfoContent(topic))
  /\ UNCHANGED <<sessions, profiles, nextProfileId, missed, carts, uninst, nReq, orders, ucp>>

\* the response has been sent; the handler serves the next request
Deliver(p) ==
  /\ proc[p].pc = "done"
  /\ proc' = [proc EXCEPT ![p] = Idle]
  /\ DbUnchanged
  /\ UNCHANGED <<carts, uninst, nReq, orders, ucp>>


(* ------------------------------ webhooks ------------------------------- *)
\* ORDERS_CREATE payloads: note_attributes with or without the _source
\* marker and the _interaction_id, the order id and the total price
OrderPayloads ==
  {[source |-> Undefined, interaction_id |-> 1, id |-> "1001", total_price |-> "19.99"],
   [source |-> SOURCE_TAG, interaction_id |-> 0, id |-> "1001", total_price |-> "19.99"]}
  \cup [source : {SOURCE_TAG}, interaction_id : 1..Cardinality(Writers),
        id : {"1001"}, total_price : {"19.99", Undefined}]

\* the update that only marks the interaction converted
OrderUpdateData_flagOnly(row, payload) == [row EXCEPT !.converted = TRUE]

OrderUpdateData(row, payload) ==
  [row EXCEPT !.converted = TRUE,
              !.orderId = payload.id,
              !.orderValue = parseFloat(IF payload.total_price = Undefined
                                        THEN "0" ELSE payload.total_price)]

\* handleOrderCreate returns before the update: the order does not carry the
\* _source marker, or carries no _interaction_id
OrderSkipped(payload) ==
  payload.source # SOURCE_TAG \/ payload.interaction_id = 0

\* what handleOrderCreate ends in: the table it leaves, what it logged, and
\* the error it lets out to its caller
Handled(table, outcome) == [interactions |-> table, outcome |-> outcome, thrown |-> NoError]

\* handleOrderCreate whose catch block throws the error again
OrderFailed_rethrows(error) ==
  [interactions |-> interactions, outcome |-> "failed", thrown |-> error]

\* handleOrderCreate's catch block: log, do not throw
OrderFailed(error) == Handled(interactions, "swallowed")

\* handleOrderCreate that deletes the interaction it was to update
handleOrderCreate_deletes(payload, db) ==
  Handled([i \in DOMAIN interactions \ {payload.interaction_id} |-> interactions[i]],
          "updated")

\* handleOrderCreate: every error of the update is caught
handleOrderCreate(payload, db) ==
  IF OrderSkipped(payload) THEN Handled(interactions, "skipped")
  ELSE IF db = "fail" THEN OrderFailed(PersistenceError("agentInteraction.update"))
  ELSE IF payload.interaction_id \notin DOMAIN interactions THEN OrderFailed(RecordNotFound)
  ELSE Handled([interactions EXCEPT ![payload.interaction_id] = OrderUpdateData(@, payload)],
               "updated")

\* the webhook action's answer: new Response() once the handler has returned,
\* the framework's 500 when an error escapes it
WebhookResponse(handled) ==
  [outcome |-> handled.outcome, status |-> IF handled.thrown = NoError THEN 200 ELSE 500]

\* action: the webhook route receives ORDERS_CREATE
OrderCreate ==
  /\ Len(orders) < MaxOrders
  /\ \E payload \in OrderPayloads :
       \E db \in IF OrderSkipped(payload) THEN {"ok"} ELSE DbOutcomes :
         LET handled == handleOrderCreate(payload, db) IN
         /\ interactions' = handled.interactions
         /\ orders' = Append(orders, WebhookResponse(handled)
                                      @@ [interaction_id |-> payload.interaction_id,
                                          source |-> payload.source])
  /\ UNCHANGED <<sessions, profiles, nextProfileId, nextId, missed, carts, proc,
                 uninst, nReq, ucp>>

\* the profile delete also deletes the profile row of every other shop
DeleteProfile_everyShop(shop) ==
  /\ profiles' = [s \in Shops |-> NoProfile]
  /\ interactions' = <<>>

\* prisma.merchantProfile.deleteMany({ where: { shop } }): the profile row
\* goes, and with it the interactions that reference it
DeleteProfile(shop) ==
  /\ profiles' = [profiles EXCEPT ![shop] = NoProfile]
  /\ interactions' =
       [i \in {j \in DOMAIN interactions :
                 ~(profiles[shop].present /\ interactions[j].merchantId = profiles[shop].id)}
          |-> interactions[i]]

\* action: handleAppUninstalled, await merchantProfile.deleteMany
UninstallProfile(shop) ==
  /\ uninst[shop] = "idle"
  /\ \E db \in DbOutcomes :
       IF db = "fail"
       THEN uninst' = [uninst EXCEPT ![shop] = "failed"] /\ UNCHANGED <<profiles, interactions>>
       ELSE DeleteProfile(shop) /\ uninst' = [uninst EXCEPT ![shop] = "sessions"]
  /\ UNCHANGED <<sessions, nextProfileId, nextId, missed, carts, proc, nReq, orders, ucp>>

\* action: handleAppUninstalled, await session.deleteMany
UninstallSessions(shop) ==
  /\ uninst[shop] = "sessions"
  /\ \E db \in DbOutcomes :
       IF db = "fail"
       THEN uninst' = [uninst EXCEPT ![shop] = "failed"] /\ UNCHANGED sessions
       ELSE /\ sessions' = sessions \ {shop}
            /\ uninst' = [uninst EXCEPT ![shop] = "missed"]
  /\ UNCHANGED <<profiles, nextProfileId, interactions, nextId, missed, carts, proc, nReq, orders, ucp>>

\* action: handleAppUninstalled, await missedOpportunity.deleteMany
UninstallMissed(shop) ==
  /\ uninst[shop] = "missed"
  /\ \E db \in DbOutcomes :
       IF db = "fail"
       THEN uninst' = [uninst EXCEPT ![shop] = "failed"] /\ UNCHANGED missed
       ELSE /\ missed' = [k \in DOMAIN missed |-> IF k[1] = shop THEN 0 ELSE missed[k]]
            /\ uninst' = [uninst EXCEPT ![shop] = "done"]
  /\ UNCHANGED <<sessions, profiles, nextProfileId, interactions, nextId, carts, proc, nReq, orders, ucp>>

(* ------------------------------ dashboard ------------------------------ *)
\* prisma.merchantProfile.upsert({ where: { shop }, update, create })
UpsertProfile(shop, update, isEnabled) ==
  IF profiles[shop].present
  THEN /\ profiles' = [profiles EXCEPT ![shop] = update]
       /\ UNCHANGED nextProfileId
  ELSE /\ nextProfileId <= MaxProfiles
       /\ profiles' = [profiles EXCEPT ![shop] =
            [present |-> TRUE, id |-> nextProfileId, isEnabled |-> isEnabled]]
       /\ nextProfileId' = nextProfileId + 1

\* action: the dashboard's toggle_agent intent, for a merchant with a session
ToggleAgent(shop) ==
  /\ shop \in sessions
  /\ \E isEnabled \in BOOLEAN :
       UpsertProfile(shop, [profiles[shop] EXCEPT !.isEnabled = isEnabled], isEnabled)
  /\ UNCHANGED <<sessions, interactions, nextId, missed, carts, proc, uninst, nReq, orders, ucp>>

\* action: the settings form is saved; a created profile is enabled
SaveSettings(shop) ==
  /\ shop \in sessions
  /\ UpsertProfile(shop, profiles[shop], TRUE)
  /\ UNCHANGED <<sessions, interactions, nextId, missed, carts, proc, uninst, nReq, orders, ucp>>

(* ------------------------------ discovery ------------------------------ *)
JsonType == <<"Content-Type", "application/json">>
CacheFiveMinutes == <<"Cache-Control", "public, max-age=300">>
AllowAnyOrigin == <<"Access-Control-Allow-Origin", "*">>

\* json(data, { status, headers })
jsonWith(data, status, headers) == [status |-> status, body |-> data, headers |-> headers]

\* the document for a store whose agent is off
DisabledDocument ==
  [ucp_version |-> "1.0", status |-> "disabled",
   message |-> "AI Agent is currently disabled for this store."]

\* the UCP profile: store, capabilities, tools and metadata
ucpProfile(shop) ==
  [ucp_version |-> "1.0", store |-> [domain |-> shop],
   capabilities |-> <<"discovery", "checkout", "inquiry">>,
   tools |-> TOOLS]

\* the discovery loader for an app-proxy request: session is the shop the
\* proxy authenticated, or Undefined; db is the outcome of the profile lookup
loader(session, db) ==
  IF session = Undefined
  THEN jsonWith([error |-> "Unauthorized"], 401, {JsonType})
  ELSE IF db = "fail"
       THEN jsonWith([error |-> "Internal server error"], 500, {JsonType})
       ELSE IF ~(profiles[session].present /\ profiles[session].isEnabled)
            THEN jsonWith(DisabledDocument, 200, {JsonType, CacheFiveMinutes})
            ELSE jsonWith(ucpProfile(session), 200,
                          {JsonType, CacheFiveMinutes, AllowAnyOrigin})

\* action: GET on the discovery route
Discovery ==
  /\ \E session \in Shops \cup {Undefined}, db \in DbOutcomes :
       /\ session \in Shops => session \in sessions
       /\ ucp' = loader(session, db)
  /\ UNCHANGED <<sessions, profiles, nextProfileId, interactions, nextId, missed,
                 carts, proc, uninst, nReq, orders>>

(* --------------------------- specification ----------------------------- *)
\* both shops have installed the app
Installed ==
  /\ sessions = Shops
  /\ interactions = <<>>
  /\ nextId = 1
  /\ missed = [k \in Shops \X Terms |-> 0]
  /\ carts = <<>>
  /\ proc = [p \in Procs |-> Idle]
  /\ uninst = [s \in Shops |-> "idle"]
  /\ nReq = 0
  /\ orders = <<>>
  /\ ucp = NoResponse

\* one merchant has enabled the agent, the other has not opened the dashboard
Init ==
  /\ Installed
  /\ profiles = [s \in Shops |->
       IF s = "a.myshopify.com"
       THEN [present |-> TRUE, id |-> 1, isEnabled |-> TRUE]
       ELSE NoProfile]
  /\ nextProfileId = 2

\* both merchants have enabled the agent
InitEnabled ==
  /\ Installed
  /\ profiles = [s \in Shops |->
       [present |-> TRUE, id |-> IF s = "a.myshopify.com" THEN 1 ELSE 2,
        isEnabled |-> TRUE]]
  /\ nextProfileId = 3

Handler(p) ==
  \/ Auth(p)
  \/ SearchUpstream(p)
  \/ SearchMissed(p)
  \/ SearchLog(p)
  \/ ProductUpstream(p)
  \/ ProductLog(p)
  \/ CheckoutLog(p)
  \/ CheckoutUpstream(p)
  \/ CheckoutUpdate(p)
  \/ InfoLog(p)

\* the dispatcher: one handler serves requests of every shape, one after the
\* other, while the merchants change their profiles
Next ==
  \/ Start(1, ShopIds, Bodies, MaxReq)
  \/ Handler(1)
  \/ Deliver(1)
  \/ \E s \in Shops : ToggleAgent(s)
  \/ \E s \in Shops : SaveSettings(s)

Spec == Init /\ [][Next]_vars

\* the writers: two handlers serve one tool call each that writes shared
\* rows, concurrently with each other and with the webhooks; one merchant
\* uninstalls the app, the other stays
Leaving == {"a.myshopify.com"}

NextConc ==
  \/ \E p \in Writers : Start(p, Shops, WriterBodies, Cardinality(Writers))
  \/ \E p \in Writers : Auth(p)
  \/ \E p \in Writers : SearchUpstream(p)
  \/ \E p \in Writers : SearchMissed(p)
  \/ \E p \in Writers : SearchLog(p)
  \/ \E p \in Writers : CheckoutLog(p)
  \/ \E p \in Writers : CheckoutUpstream(p)
  \/ \E p \in Writers : CheckoutUpdate(p)
  \/ OrderCreate
  \/ \E s \in Leaving : UninstallProfile(s)
  \/ \E s \in Leaving : UninstallSessions(s)
  \/ \E s \in Leaving : UninstallMissed(s)

SpecConc == InitEnabled /\ [][NextConc]_vars

\* the searches: every handler serves one search_products call of one tenant,
\* all of them concurrently
SearchShops == {"a.myshopify.com"}

NextSearch ==
  \/ \E p \in Procs : Start(p, SearchShops, SearchBodies, NumProcs)
  \/ \E p \in Procs : Auth(p)
  \/ \E p \in Procs : SearchUpstream(p)
  \/ \E p \in Procs : SearchMissed(p)
  \/ \E p \in Procs : SearchLog(p)

SpecSearch == InitEnabled /\ [][NextSearch]_vars


\* the registry: two handlers serve tools/list for any tenant while a third
\* serves a search or a checkout that changes the persisted state
ListCallers == {1, 2}
StateWriters == {3}

NextList ==
  \/ \E p \in ListCallers : Start(p, Shops, ListBodies, NumProcs)
  \/ \E p \in StateWriters : Start(p, Shops, WriterBodies, NumProcs)
  \/ \E p \in ListCallers \cup StateWriters :
       \/ Auth(p)
       \/ SearchUpstream(p) \/ SearchMissed(p) \/ SearchLog(p)
       \/ CheckoutLog(p) \/ CheckoutUpstream(p) \/ CheckoutUpdate(p)

SpecList == InitEnabled /\ [][NextList]_vars

\* the uninstall: one merchant uninstalls while a handler serves a tool call
\* of either tenant and the merchants use the dashboard
NextUninstall ==
  \/ \E p \in StateWriters : Start(p, Shops, WriterBodies, MaxReq)
  \/ \E p \in StateWriters :
       \/ Auth(p)
       \/ SearchUpstream(p) \/ SearchMissed(p) \/ SearchLog(p)
       \/ CheckoutLog(p) \/ CheckoutUpstream(p) \/ CheckoutUpdate(p)
  \/ \E s \in Shops : ToggleAgent(s)
  \/ \E s \in Shops : SaveSettings(s)
  \/ \E s \in Leaving : UninstallProfile(s)
  \/ \E s \in Leaving : UninstallSessions(s)
  \/ \E s \in Leaving : UninstallMissed(s)

SpecUninstall == Init /\ [][NextUninstall]_vars

\* discovery: agents read the discovery document while the merchants change
\* their profiles and one of them uninstalls
NextDiscovery ==
  \/ Discovery
  \/ \E s \in Shops : ToggleAgent(s)
  \/ \E s \in Shops : SaveSettings(s)
  \/ \E s \in Leaving : UninstallProfile(s)
  \/ \E s \in Leaving : UninstallSessions(s)
  \/ \E s \in Leaving : UninstallMissed(s)

SpecDiscovery == Init /\ [][NextDiscovery]_vars

(* ------------------------------- claims -------------------------------- *)
HasBody(response) == "body" \in DOMAIN response
HasResult(response) == HasBody(response) /\ "result" \in DOMAIN response.body
HasError(response) == HasBody(response) /\ "error" \in DOMAIN response.body
IsEnvelope(response) == HasBody(response) /\ "jsonrpc" \in DOMAIN response.body

\* getMerchantSession returned the session to the handler
Authenticated(r) ==
  r.session.present /\ r.session.profile.present /\ r.session.profile.isEnabled

\* the session lookup found the tenant's agent off: a disabled profile or none
SeenDisabled(r) == r.session.present /\ ~Authenticated(r)

IsToolsCall(r) == r.body.kind = "object" /\ r.body.method = "tools/call"

DisabledEnvelope == ErrorEnvelope(Null, -32603, <<"AI Agent is disabled for this store">>)

\* C1: a tools/call request whose session lookup finds the tenant's profile
\* disabled or missing is answered with the agent-disabled error envelope and
\* never with a result, whatever the tool name and arguments; the handler
\* never gets past authentication.
C1_DisabledNeverResult ==
  \A p \in Procs :
    LET r == proc[p] IN
    (IsToolsCall(r) /\ SeenDisabled(r)) =>
      /\ r.pc = "done"
      /\ r.response = DisabledEnvelope
      /\ ~HasResult(r.response)

C1_Witness ==
  \E p \in Procs :
    LET r == proc[p] IN
    /\ IsToolsCall(r) /\ SeenDisabled(r) /\ r.session.profile.present
    /\ r.body.params.name = "search_products"
    /\ r.response = DisabledEnvelope

UnknownMethod(r) == r.body.kind \in {"object", "scalar"} /\ r.body.method \notin Methods

ErrorCode(response) == response.body.error.code

\* C6 as claimed: every request with a method outside the five is answered
\* with code -32601.
C6_UnknownMethodAlways32601 ==
  \A p \in Procs :
    LET r == proc[p] IN
    (r.pc = "done" /\ r.body.kind = "object" /\ r.body.method \notin Methods) =>
      HasError(r.response) /\ ErrorCode(r.response) = -32601

\* C6 amended: a request with a method outside the five is answered with code
\* -32601 and the request's id when its body is a JSON value other than null
\* and the tenant authenticates; when the tenant does not authenticate it is
\* answered with code -32603.
C6_UnknownMethodAfterAuth ==
  \A p \in Procs :
    LET r == proc[p] IN
    (r.pc = "done" /\ UnknownMethod(r)) =>
      IF Authenticated(r)
      THEN r.response = ErrorEnvelope(r.body.id, -32601, <<"Method not found: ", r.body.method>>)
      ELSE HasError(r.response) /\ ErrorCode(r.response) = -32603

C6_Witness ==
  \E p \in Procs :
    LET r == proc[p] IN
    /\ r.pc = "done" /\ r.body.method = "bogus/method" /\ r.body.params.present
    /\ Authenticated(r)
    /\ ErrorCode(r.response) = -32601

\* C7: every answered POST has a JSON body holding exactly one of the keys
\* result and error; no handler ends in a response without body.
C7_ExactlyOneOfResultOrError ==
  \A p \in Procs :
    LET r == proc[p] IN
    r.pc = "done" =>
      /\ HasBody(r.response)
      /\ HasResult(r.response) # HasError(r.response)

C7_Witness ==
  \E p \in Procs :
    LET r == proc[p] IN
    /\ r.pc = "done" /\ r.error = <<"fetch failed">>
    /\ HasError(r.response) /\ ~HasResult(r.response)

\* C8: an error thrown inside the try block is answered with an error
\* envelope of code -32603 whose message is the thrown error's message.
C8_ThrownBecomes32603 ==
  \A p \in Procs :
    LET r == proc[p] IN
    r.error # NoError =>
      /\ r.pc = "done"
      /\ HasError(r.response) /\ ~HasResult(r.response)
      /\ ErrorCode(r.response) = -32603
      /\ r.response.body.error.message = r.error

C8_Witness ==
  \E p \in Procs :
    LET r == proc[p] IN
    /\ r.error = PersistenceError("agentInteraction.update")
    /\ r.response.body.error.message = r.error

\* C9 as claimed: every envelope carries the id of its request whenever the
\* request's id can be read from the parsed body.
C9_EnvelopeCarriesRequestId ==
  \A p \in Procs :
    LET r == proc[p] IN
    (r.pc = "done" /\ IsEnvelope(r.response)
       /\ r.body.kind = "object" /\ r.body.id # Undefined) =>
      "id" \in DOMAIN r.response.body /\ r.response.body.id = r.body.id

\* C10: a request whose session lookup finds no session, a disabled profile
\* or no profile is answered with status 200 and a JSON-RPC error envelope.
C10_AuthFailureIsEnvelope ==
  \A p \in Procs :
    LET r == proc[p] IN
    (r.session # Unset /\ ~Authenticated(r)) =>
      /\ r.pc = "done"
      /\ r.response.status = 200
      /\ IsEnvelope(r.response)
      /\ HasError(r.response) /\ ~HasResult(r.response)
      /\ r.response.body.error.message =
           IF r.session.present THEN <<"AI Agent is disabled for this store">>
           ELSE <<"Shop not found">>

C10_Witness ==
  \E p \in Procs :
    LET r == proc[p] IN
    /\ r.session = NoSession /\ r.shopId = "ghost.myshopify.com"
    /\ r.response.status = 200 /\ HasError(r.response)


(* ------------------ claims on attribution and counters ------------------ *)
CartIds == 1..Len(carts)
Attribution(c) == carts[c].attributes

\* the handler whose createCheckoutLink call made cart c
MadeCart(p, c) == proc[p].checkout.checkoutId = c

\* C2 as claimed: every cart carries the source marker and an interaction id
\* of its own, and that id matches exactly one stored AgentInteraction.
C2_ExactlyOneInteraction ==
  \A c \in CartIds :
    /\ Attribution(c)._source = SOURCE_TAG
    /\ \A d \in CartIds : d # c => Attribution(d)._interaction_id # Attribution(c)._interaction_id
    /\ Attribution(c)._interaction_id \in DOMAIN interactions

\* C2 amended: every cart carries the source marker and an interaction id that
\* logInteraction minted and no other cart carries; the id matches the
\* create_checkout interaction of the cart's tenant, or no interaction at all
\* once the tenant's profile row of that request has been deleted.
C2_AtMostOneInteraction ==
  \A c \in CartIds :
    LET id == Attribution(c)._interaction_id IN
    /\ Attribution(c)._source = SOURCE_TAG
    /\ id \in 1..(nextId - 1)
    /\ \A d \in CartIds : d # c => Attribution(d)._interaction_id # id
    /\ \E p \in Procs :
         /\ MadeCart(p, c)
         /\ IF id \in DOMAIN interactions
            THEN /\ interactions[id].userIntent = "create_checkout"
                 /\ interactions[id].merchantId = proc[p].session.profile.id
            ELSE proc[p].session.profile.id \notin ProfileIds

C2_Witness ==
  \E c \in CartIds, d \in CartIds :
    /\ c # d
    /\ Attribution(c)._interaction_id \in DOMAIN interactions
    /\ interactions[Attribution(c)._interaction_id].converted
    /\ interactions[Attribution(c)._interaction_id].orderId = "1001"

\* C3: the interaction id a cart carries is the id logInteraction returned to
\* the request that made the cart, and an interaction that records a checkout
\* records the cart that carries its own id.
C3_AttributionRoundTrip ==
  /\ \A c \in CartIds :
       \E p \in Procs :
         /\ MadeCart(p, c)
         /\ proc[p].interactionId # 0
         /\ Attribution(c)._interaction_id = proc[p].interactionId
  /\ \A i \in DOMAIN interactions :
       interactions[i].checkoutId # 0 =>
         /\ interactions[i].checkoutId \in CartIds
         /\ Attribution(interactions[i].checkoutId)._interaction_id = i

C3_Witness ==
  \E i \in DOMAIN interactions, j \in DOMAIN interactions :
    /\ i # j
    /\ interactions[i].checkoutId # 0 /\ interactions[j].checkoutId # 0
    /\ Attribution(interactions[i].checkoutId)._interaction_id = i

\* the key of the search request handler p is serving
SearchKey(p) == <<proc[p].session.shop, Args(proc[p]).query>>

\* handler p's trackMissedOpportunity call returns
UpsertStep(p) == proc[p].pc = "search_missed" /\ proc'[p].pc = "search_log"

\* C4: a search that finds nothing goes on to trackMissedOpportunity; the
\* call adds one to the count of the request's (shop, term) key and changes no
\* other count; the handler changes no count in any other step, and a count
\* changes otherwise only when the uninstall cleanup deletes the shop's rows.
C4_OneUpsertPerZeroResult ==
  [][ /\ \A p \in Procs :
           (proc[p].pc = "search_upstream" /\ proc'[p].pc \in {"search_missed", "search_log"})
             => (proc'[p].pc = "search_missed" <=> proc'[p].found = 0)
      /\ \A p \in Procs :
           UpsertStep(p) => missed' = [missed EXCEPT ![SearchKey(p)] = @ + 1]
      /\ \A p \in Procs :
           (proc'[p] # proc[p] /\ ~UpsertStep(p)) => missed' = missed
      /\ \A k \in DOMAIN missed :
           missed'[k] # missed[k] =>
             \/ \E p \in Procs : UpsertStep(p) /\ SearchKey(p) = k
             \/ uninst[k[1]] = "missed" /\ missed'[k] = 0
    ]_vars

C4_Witness ==
  \E p \in Procs, q \in Procs :
    /\ p # q
    /\ proc[p].pc = "done" /\ proc[q].pc = "done"
    /\ HasResult(proc[p].response) /\ HasResult(proc[q].response)
    /\ proc[p].found = 0 /\ proc[q].found = 0
    /\ SearchKey(p) = SearchKey(q)
    /\ missed[SearchKey(p)] = 2

\* handler p's upsert for key k has returned
UpsertReturned(p, k) ==
  /\ proc[p].found = 0
  /\ \/ proc[p].pc = "search_log"
     \/ /\ proc[p].pc = "done"
        /\ proc[p].error \in {NoError, PersistenceError("agentInteraction.create")}
        /\ proc[p].session.present
  /\ SearchKey(p) = k

\* C5: with any number of concurrent zero-result searches for one key, the
\* key's count is the number of upserts that have returned, and no call
\* fails on the key's unique constraint.
C5_NoLostUpdate ==
  /\ \A k \in DOMAIN missed :
       missed[k] = Cardinality({p \in Procs : UpsertReturned(p, k)})
  /\ \A p \in Procs : proc[p].error # UniqueConstraintError

C5_Witness ==
  \E k \in DOMAIN missed :
    /\ missed[k] = NumProcs
    /\ \A p \in Procs : proc[p].pc = "done" /\ HasResult(proc[p].response)


(* ------------------------ claims on the contract ----------------------- *)
\* handler p has answered the red-dress search of an enabled tenant that
\* matched no product, with every persistence call succeeding
RedDressAnswered(p) ==
  /\ proc[p].pc = "done"
  /\ proc[p].body = RedDressRequest
  /\ Authenticated(proc[p])
  /\ proc[p].found = 0
  /\ proc[p].error = NoError

NoProductsText == <<"No products found for \"", "red dress", "\". Try a different search term.">>

\* C11 as claimed: the red-dress search that matches nothing is answered with
\* a result whose one content block has the fields type and text only, and a
\* MissedOpportunity row for "red dress" exists.
C11_ContentTypeAndTextOnly ==
  \A p \in Procs :
    RedDressAnswered(p) =>
      /\ proc[p].response =
           ResultEnvelope("1", [content |-> <<[type |-> "text", text |-> NoProductsText]>>])
      /\ missed[<<proc[p].session.shop, "red dress">>] >= 1

\* C11 amended: the red-dress search that matches nothing is answered with a
\* result of id 1 whose one content block has type "text", the no-products
\* text and a data field holding the empty product list, and a
\* MissedOpportunity row for "red dress" exists for the tenant.
C11_ContentWithEmptyData ==
  \A p \in Procs :
    RedDressAnswered(p) =>
      /\ proc[p].response =
           ResultEnvelope("1", [content |->
             <<[type |-> "text", text |-> NoProductsText, data |-> <<>>]>>])
      /\ missed[<<proc[p].session.shop, "red dress">>] >= 1

C11_Witness ==
  \E p \in Procs :
    /\ RedDressAnswered(p)
    /\ HasResult(proc[p].response)
    /\ missed[<<"a.myshopify.com", "red dress">>] = 1


\* handler p has answered a resources/read request that carries a params
\* object, for a tenant that authenticated
ResourceRead(p) ==
  /\ proc[p].pc = "done"
  /\ proc[p].body.kind = "object"
  /\ proc[p].body.method = "resources/read"
  /\ proc[p].body.params.present
  /\ Authenticated(proc[p])

\* C12: for an enabled tenant a resources/read whose uri is the tenant's own
\* context uri is answered with a result for that uri, and one with any other
\* uri (another tenant's context, or none) with the error envelope of code
\* -32602, message "Resource not found" and the request's id.
C12_ResourceNotFound ==
  \A p \in Procs :
    LET r == proc[p] IN
    ResourceRead(p) =>
      IF r.body.params.uri = ContextUri(r.shopId)
      THEN /\ HasResult(r.response) /\ ~HasError(r.response)
           /\ r.response.body.id = r.body.id
           /\ r.response.body.result.contents[1].uri = ContextUri(r.shopId)
      ELSE r.response = ErrorEnvelope(r.body.id, -32602, <<"Resource not found">>)

C12_Witness ==
  \E p \in Procs :
    /\ ResourceRead(p)
    /\ proc[p].shopId = "a.myshopify.com"
    /\ proc[p].body.params.uri = ContextUri("b.myshopify.com")
    /\ ErrorCode(proc[p].response) = -32602


\* handler p has answered a tools/list request with a result
ListAnswered(p) ==
  /\ proc[p].pc = "done"
  /\ proc[p].body.kind = "object"
  /\ proc[p].body.method = "tools/list"
  /\ HasResult(proc[p].response)

\* C13: every tools/list result is the list of the four descriptors
\* search_products, get_product, create_checkout, get_store_info in that
\* order, and any two tools/list results are equal, whichever tenants they
\* address and whatever has been persisted in between.
C13_ToolsListStable ==
  /\ \A p \in Procs :
       ListAnswered(p) =>
         proc[p].response.body.result =
           [tools |-> <<"search_products", "get_product", "create_checkout",
                        "get_store_info">>]
  /\ \A p \in Procs, q \in Procs :
       (ListAnswered(p) /\ ListAnswered(q)) =>
         proc[p].response.body.result = proc[q].response.body.result

C13_Witness ==
  \E p \in Procs, q \in Procs :
    /\ ListAnswered(p) /\ ListAnswered(q)
    /\ proc[p].shopId # proc[q].shopId
    /\ proc[p].response.body.result = proc[q].response.body.result
    /\ interactions # <<>> /\ carts # <<>>


\* handler p has answered a tools/call request with a result
ToolCallAnswered(p) ==
  /\ proc[p].pc = "done"
  /\ proc[p].body.kind = "object"
  /\ proc[p].body.method = "tools/call"
  /\ HasResult(proc[p].response)

\* the rows a step adds to the AgentInteraction table
AddedInteractions == (DOMAIN interactions') \ (DOMAIN interactions)

\* C14: a tools/call that has returned a result has logged an interaction of
\* its own: a row of the tenant's profile whose intent is the tool's name;
\* and a handler adds a row in one step only, the step in which it takes the
\* row's id, so the call adds exactly one row.
C14_OneInteractionPerToolCall ==
  [][ /\ \A p \in Procs :
           ToolCallAnswered(p)' =>
             LET r == proc'[p] IN
             /\ r.interactionId \in DOMAIN interactions'
             /\ interactions'[r.interactionId].userIntent = r.body.params.name
             /\ interactions'[r.interactionId].merchantId = r.session.profile.id
             /\ r.body.params.name \in ToolNames
      /\ \A p \in Procs :
           (proc'[p] # proc[p] /\ proc'[p].pc # "idle") =>
             IF proc[p].interactionId = 0 /\ proc'[p].interactionId # 0
             THEN AddedInteractions = {proc'[p].interactionId}
             ELSE /\ AddedInteractions = {}
                  /\ proc'[p].interactionId = proc[p].interactionId
    ]_vars

C14_Witness ==
  \E p \in Procs :
    /\ ToolCallAnswered(p)
    /\ proc[p].body.params.name = "get_store_info"
    /\ DOMAIN interactions = {proc[p].interactionId}
    /\ interactions[proc[p].interactionId].userIntent = "get_store_info"


UpstreamErrors ==
  {executeShopifyGraphQL(o) : o \in UpstreamOutcomes} \ {NoError}

\* C15: a handler sends at most one upstream request; one that received an
\* upstream failure has ended with that error after its one request and has
\* made no cart; a cart is made by the one request of a create_checkout call,
\* so there are no more carts than requests.
C15_NoUpstreamRetry ==
  /\ \A p \in Procs :
       /\ proc[p].fetches <= 1
       /\ proc[p].error \in UpstreamErrors =>
            /\ proc[p].pc = "done"
            /\ proc[p].fetches = 1
            /\ proc[p].checkout = NoCheckout
       /\ proc[p].checkout # NoCheckout =>
            /\ proc[p].fetches = 1
            /\ proc[p].body.params.name = "create_checkout"
  /\ Len(carts) <= nReq

C15_Witness ==
  \E p \in Procs :
    /\ proc[p].pc = "done"
    /\ proc[p].body.params.name = "create_checkout"
    /\ proc[p].error = <<"fetch failed">>
    /\ proc[p].fetches = 1
    /\ proc[p].interactionId # 0
    /\ carts = <<>>


(* ------------------------ claims on the webhooks ----------------------- *)
\* a step in which the webhook action answers an ORDERS_CREATE delivery
OrderDelivered == Len(orders') = Len(orders) + 1
Delivered == orders'[Len(orders')]

\* C16: an ORDERS_CREATE delivery is always answered with status 200; one
\* whose interaction id is unknown is never recorded as a conversion; and a
\* delivery that is skipped or whose update fails (unknown id, or the
\* persistence call rejects) leaves the AgentInteraction table as it was.
C16_OrderFailureSwallowed ==
  [][ OrderDelivered =>
        /\ Delivered.status = 200
        /\ Delivered.interaction_id \notin DOMAIN interactions =>
             Delivered.outcome \in {"skipped", "swallowed"}
        /\ Delivered.outcome # "updated" => interactions' = interactions
    ]_vars

C16_Witness ==
  \E i \in DOMAIN orders :
    /\ orders[i].outcome = "swallowed"
    /\ orders[i].status = 200
    /\ orders[i].interaction_id \notin DOMAIN interactions
    /\ interactions # <<>>


\* the rows of the tables that belong to a shop
MissedOf(shop, table) == [t \in Terms |-> table[<<shop, t>>]]
InteractionsOf(profile, table) ==
  {i \in DOMAIN table : profile.present /\ table[i].merchantId = profile.id}
NoMissed == [t \in Terms |-> 0]

\* a step of the cleanup for shop s leaves the rows of every other shop alone
OthersUnchanged(s) ==
  /\ \A o \in Shops \ {s} :
       /\ profiles'[o] = profiles[o]
       /\ (o \in sessions') <=> (o \in sessions)
       /\ MissedOf(o, missed') = MissedOf(o, missed)
  /\ \A i \in DOMAIN interactions \ InteractionsOf(profiles[s], interactions) :
       i \in DOMAIN interactions' /\ interactions'[i] = interactions[i]

\* the step in which the cleanup for shop s completes
CleanupCompletes(s) == uninst[s] = "missed" /\ uninst'[s] = "done"

\* C17 as claimed: when the cleanup for a shop completes the shop has no
\* MerchantProfile, no Session and no MissedOpportunity row, and the rows of
\* the other shops are as they were.
C17_NoRowRemains ==
  [][ \A s \in Shops :
        CleanupCompletes(s) =>
          /\ ~profiles'[s].present
          /\ s \notin sessions'
          /\ MissedOf(s, missed') = NoMissed
          /\ OthersUnchanged(s)
    ]_vars

\* C17 amended: each delete of the cleanup removes the shop's rows present
\* when it runs and nothing else: the first the MerchantProfile with its
\* interactions, the second the Session, the third the MissedOpportunity rows;
\* when the cleanup completes the shop has no Session and no MissedOpportunity
\* row, and a MerchantProfile row only if the dashboard has upserted one since
\* the first delete; the rows of the other shops are as they were.
C17_CleanupDeletesOwnRows ==
  [][ \A s \in Shops :
        /\ (uninst[s] = "idle" /\ uninst'[s] = "sessions") =>
             /\ ~profiles'[s].present
             /\ InteractionsOf(profiles[s], interactions') = {}
             /\ sessions' = sessions /\ missed' = missed
             /\ OthersUnchanged(s)
        /\ (uninst[s] = "sessions" /\ uninst'[s] = "missed") =>
             /\ s \notin sessions'
             /\ profiles' = profiles /\ interactions' = interactions /\ missed' = missed
             /\ OthersUnchanged(s)
        /\ CleanupCompletes(s) =>
             /\ MissedOf(s, missed') = NoMissed
             /\ s \notin sessions'
             /\ profiles' = profiles /\ interactions' = interactions /\ sessions' = sessions
             /\ OthersUnchanged(s)
        /\ (uninst[s] # "failed" /\ uninst'[s] = "failed") =>
             <<sessions', profiles', interactions', missed'>> =
               <<sessions, profiles, interactions, missed>>
    ]_vars

C17_Witness ==
  \E s \in Leaving, o \in Shops \ Leaving :
    /\ uninst[s] = "done"
    /\ ~profiles[s].present /\ s \notin sessions /\ MissedOf(s, missed) = NoMissed
    /\ profiles[o].present /\ o \in sessions /\ MissedOf(o, missed) # NoMissed


(* ------------------------ claims on discovery -------------------------- *)
\* the discovery endpoint has served a document
DocumentServed == ucp # NoResponse /\ ucp.status = 200

\* C18 as claimed: every discovery document served, the full profile and the
\* disabled document alike, carries the 300-second cache-control header and
\* the header that permits cross-origin reads.
C18_DiscoveryHeaders ==
  DocumentServed =>
    /\ CacheFiveMinutes \in ucp.headers
    /\ AllowAnyOrigin \in ucp.headers


(* ---------------------- claims on create_checkout ---------------------- *)
\* handler p is serving a create_checkout call
InCheckout(p) ==
  IsToolsCall(proc[p]) /\ proc[p].body.params.name = "create_checkout"

\* the interaction row carries no checkout details
WithoutCheckout(row) ==
  row.checkoutId = 0 /\ row.checkoutUrl = <<>> /\ row.potentialValue = NaN

\* the interaction row carries the details of the checkout
WithCheckout(row, checkout) ==
  /\ row.checkoutId = checkout.checkoutId
  /\ row.checkoutUrl = <<"https://checkout/", checkout.checkoutId>>
  /\ row.potentialValue = parseFloat(checkout.totalPrice)

\* handler p's step 2 (cart creation) or step 3 (update) fails in this step
CheckoutStepFails(p) ==
  /\ proc[p].pc \in {"checkout_upstream", "checkout_update"}
  /\ proc'[p].pc = "done"
  /\ ~HasResult(proc'[p].response)

\* C19: create_checkout writes in two phases in a fixed order. The cart is
\* created only by a handler that has created its interaction, the row then
\* carrying no checkout details, and is tagged with that row's id; the update
\* that follows writes checkoutId, checkoutUrl and potentialValue of that cart
\* into the same row; and when the cart creation or the update fails the row
\* is left without checkout details and the caller gets an error envelope.
C19_TwoPhaseWrite ==
  [][ \A p \in Procs :
        LET r == proc[p]
            id == r.interactionId
        IN
        /\ (r.pc = "checkout_log" /\ proc'[p].pc = "checkout_upstream") =>
             /\ AddedInteractions = {proc'[p].interactionId}
             /\ WithoutCheckout(interactions'[proc'[p].interactionId])
             /\ carts' = carts
        /\ (r.pc = "checkout_upstream" /\ proc'[p].pc = "checkout_update") =>
             /\ id # 0
             /\ Len(carts') = Len(carts) + 1
             /\ carts'[Len(carts')].attributes._interaction_id = id
             /\ proc'[p].checkout.checkoutId = Len(carts')
             /\ id \in DOMAIN interactions => WithoutCheckout(interactions[id])
             /\ interactions' = interactions
        /\ (r.pc = "checkout_update" /\ HasResult(proc'[p].response)) =>
             /\ id \in DOMAIN interactions
             /\ WithoutCheckout(interactions[id])
             /\ WithCheckout(interactions'[id], r.checkout)
             /\ \A i \in DOMAIN interactions \ {id} : interactions'[i] = interactions[i]
             /\ carts' = carts
        /\ CheckoutStepFails(p) =>
             /\ id \in DOMAIN interactions' => WithoutCheckout(interactions'[id])
             /\ interactions' = interactions
             /\ proc'[p].response = catch(proc'[p].error)
             /\ HasError(proc'[p].response)
    ]_vars

\* one create_checkout has returned its checkout and its row carries the
\* details, another has failed in the update after its cart was created and
\* its row carries none
C19_Witness ==
  \E p, q \in Procs :
    /\ InCheckout(p) /\ ToolCallAnswered(p)
    /\ proc[p].interactionId \in DOMAIN interactions
    /\ WithCheckout(interactions[proc[p].interactionId], proc[p].checkout)
    /\ InCheckout(q) /\ proc[q].pc = "done" /\ HasError(proc[q].response)
    /\ proc[q].checkout # NoCheckout
    /\ proc[q].interactionId \in DOMAIN interactions
    /\ WithoutCheckout(interactions[proc[q].interactionId])


(* ------------------------- claims on cart lines ------------------------ *)
\* the quantity the caller asked for at position i: quantities[i], or 1 when
\* the call has no quantities argument or the list ends before i
RequestedQuantity(args, i) ==
  IF IsSome(args.quantities) /\ i <= Len(Get(args.quantities))
  THEN Get(args.quantities)[i]
  ELSE 1

\* C20 as claimed: the lines of a created cart align positionally with
\* variantIds: line i has merchandise variantIds[i] and quantity
\* quantities[i], and a missing quantity (no quantities argument, or a list
\* shorter than variantIds) is 1.
C20_LinesAlignWithVariants ==
  \A c \in CartIds, p \in Procs :
    (InCheckout(p) /\ MadeCart(p, c)) =>
      LET args == Args(proc[p])
          variantIds == Get(args.variant_ids)
          lines == carts[c].lines
      IN /\ Len(lines) = Len(variantIds)
         /\ \A i \in 1..Len(variantIds) :
              /\ lines[i].merchandiseId = variantIds[i]
              /\ lines[i].quantity = RequestedQuantity(args, i)


(* ----------------------- claims on tool failures ----------------------- *)
\* the platform answered handler p's cart creation with userErrors
CartRejected(p) == proc[p].userErrors # <<>>

\* the message quotes the platform's error messages
QuotesErrors(message, errors) ==
  \E i \in DOMAIN message :
    /\ i + Len(errors) - 1 <= Len(message)
    /\ SubSeq(message, i, i + Len(errors) - 1) = errors

\* C21: when the platform answers a cart creation with user errors, the
\* caller gets an error envelope whose message contains the platform's
\* messages, no result, no checkout, and the call's interaction keeps no
\* checkout details.
C21_UserErrorsReachCaller ==
  \A p \in Procs :
    CartRejected(p) =>
      LET r == proc[p] IN
      /\ r.pc = "done"
      /\ HasError(r.response) /\ ~HasResult(r.response)
      /\ QuotesErrors(r.response.body.error.message, r.userErrors)
      /\ r.checkout = NoCheckout
      /\ \A c \in CartIds : Attribution(c)._interaction_id # r.interactionId
      /\ r.interactionId \in DOMAIN interactions =>
           WithoutCheckout(interactions[r.interactionId])

\* a rejected cart creation whose interaction is stored
C21_Witness ==
  \E p \in Procs :
    /\ CartRejected(p)
    /\ InCheckout(p)
    /\ proc[p].interactionId \in DOMAIN interactions
    /\ HasError(proc[p].response)


\* a tools/call whose params.name is none of the registered tools
UnknownTool(r) ==
  IsToolsCall(r) /\ r.body.params.present /\ r.body.params.name \notin ToolNames

\* C22: a tools/call naming no registered tool is answered with an error
\* envelope of code -32603 and never a result; none of its steps creates an
\* AgentInteraction or a MissedOpportunity row, and it calls nothing upstream.
C22_UnknownToolIsInternalError ==
  [][ \A p \in Procs :
        (UnknownTool(proc'[p]) /\ proc'[p] # proc[p]) =>
          /\ interactions' = interactions
          /\ missed' = missed
          /\ carts' = carts
          /\ proc'[p].fetches = 0
          /\ proc'[p].interactionId = 0
          /\ proc'[p].pc \in {"auth", "done"}
          /\ proc'[p].pc = "done" =>
               /\ HasError(proc'[p].response) /\ ~HasResult(proc'[p].response)
               /\ ErrorCode(proc'[p].response) = -32603
    ]_vars

\* an enabled tenant's call of a tool that is not registered has been answered
C22_Witness ==
  \E p \in Procs :
    /\ UnknownTool(proc[p]) /\ proc[p].body.params.name = "bogus_tool"
    /\ Authenticated(proc[p])
    /\ proc[p].pc = "done"
    /\ proc[p].error = <<"Unknown tool: ", "bogus_tool">>


\* get_product: getProductByHandle has returned absent to handler p, and the
\* handler has answered
Unresolved(p) ==
  /\ IsToolsCall(proc[p]) /\ proc[p].body.params.name = "get_product"
  /\ proc[p].pc = "done"
  /\ proc[p].fetches = 1
  /\ proc[p].found = 0
  /\ proc[p].error \notin UpstreamErrors

NotFoundText(handle) == <<"Product with handle \"", handle, "\" not found.">>

\* the errors of logInteraction's create
LogErrors == {PersistenceError("agentInteraction.create"), ForeignKeyError}

\* C23 as claimed: a get_product call whose handle does not resolve is
\* answered with a result envelope holding the not-found text, never with an
\* error envelope, and has logged an interaction.
C23_UnresolvedNeverError ==
  \A p \in Procs :
    Unresolved(p) =>
      /\ HasResult(proc[p].response) /\ ~HasError(proc[p].response)
      /\ proc[p].interactionId # 0

\* C23 amended: a handle that does not resolve is not an error. The call logs
\* one get_product interaction and returns a result envelope holding the
\* not-found text block; it returns an error envelope only when logging the
\* interaction fails, and then no interaction is logged.
C23_UnresolvedIsNotAnError ==
  \A p \in Procs :
    Unresolved(p) =>
      LET r == proc[p]
          handle == Args(r).handle
      IN IF r.error = NoError
         THEN /\ r.response =
                   ResultEnvelope(r.body.id,
                     [content |-> <<[type |-> "text", text |-> NotFoundText(handle)]>>])
              /\ r.interactionId # 0
              /\ r.interactionId \in DOMAIN interactions =>
                   /\ interactions[r.interactionId].userIntent = "get_product"
                   /\ interactions[r.interactionId].inputQuery = <<handle>>
         ELSE /\ r.error \in LogErrors
              /\ r.interactionId = 0
              /\ HasError(r.response) /\ ~HasResult(r.response)

\* an unresolved handle answered with the not-found result, its interaction stored
C23_Witness ==
  \E p \in Procs :
    /\ Unresolved(p)
    /\ HasResult(proc[p].response)
    /\ proc[p].interactionId \in DOMAIN interactions


(* --------------------- claims on order attribution --------------------- *)
\* the delivered order carries the attribution pair of a stored interaction
Attributed(order) ==
  /\ order.source = SOURCE_TAG
  /\ order.interaction_id \in DOMAIN interactions

\* the delivered order lacks the _source marker or the _interaction_id
Unattributed(order) == order.source # SOURCE_TAG \/ order.interaction_id = 0

\* the order's update is stored on row id and on no other row
ConvertedOnly(id) ==
  /\ DOMAIN interactions' = DOMAIN interactions
  /\ interactions'[id].converted
  /\ interactions'[id].orderId = "1001"
  /\ interactions'[id].orderValue \in {parseFloat("19.99"), parseFloat("0")}
  /\ interactions'[id] =
       [interactions[id] EXCEPT !.converted = TRUE, !.orderId = "1001",
                                !.orderValue = interactions'[id].orderValue]
  /\ \A i \in DOMAIN interactions \ {id} : interactions'[i] = interactions[i]

\* C24 as claimed: an order carrying the attribution pair of an existing
\* interaction sets converted, orderId and orderValue on exactly that
\* interaction; an order without the marker or the id changes no interaction.
C24_AttributedOrderConverts ==
  [][ OrderDelivered =>
        /\ Attributed(Delivered) => ConvertedOnly(Delivered.interaction_id)
        /\ Unattributed(Delivered) => interactions' = interactions
    ]_vars

\* C24 amended: an order carrying the attribution pair of an existing
\* interaction sets converted, orderId and orderValue on exactly that
\* interaction and changes no other, unless the update itself fails, and then
\* no interaction changes; an order without the marker or the id changes no
\* interaction.
C24_AttributedOrderConvertsUnlessUpdateFails ==
  [][ OrderDelivered =>
        /\ Attributed(Delivered) =>
             IF Delivered.outcome = "updated"
             THEN ConvertedOnly(Delivered.interaction_id)
             ELSE Delivered.outcome = "swallowed" /\ interactions' = interactions
        /\ Unattributed(Delivered) =>
             Delivered.outcome = "skipped" /\ interactions' = interactions
    ]_vars

\* an attributed order has converted one interaction and left another alone
C24_Witness ==
  \E o \in DOMAIN orders, i, j \in DOMAIN interactions :
    /\ orders[o].outcome = "updated" /\ orders[o].interaction_id = i
    /\ interactions[i].converted /\ interactions[i].orderId = "1001"
    /\ i # j /\ ~interactions[j].converted


(* ------------------- claims on the interaction table ------------------- *)
RemovedInteractions == (DOMAIN interactions) \ (DOMAIN interactions')

\* this step is the profile delete of shop s's uninstall cleanup
ProfileCleanup(s) == uninst[s] = "idle" /\ uninst'[s] # "idle"

\* C25: the AgentInteraction table is append-mostly. A step of an MCP request
\* or of an order webhook removes no interaction, and a new interaction gets
\* an id never used before; interactions are removed only by the uninstall
\* cleanup of a tenant, and only those of that tenant's profile.
C25_AppendMostly ==
  [][ /\ \A i \in AddedInteractions : i = nextId /\ nextId' > nextId
      /\ RemovedInteractions # {} =>
           \E s \in Shops :
             /\ ProfileCleanup(s)
             /\ RemovedInteractions = InteractionsOf(profiles[s], interactions)
    ]_vars

\* interactions were created and the uninstall cleanup has removed them, after
\* an order webhook was processed
C25_Witness ==
  /\ nextId > 2
  /\ interactions = <<>>
  /\ \E s \in Shops : uninst[s] = "done"
  /\ orders # <<>>


(* ------------------- claims on authentication order -------------------- *)
\* the session lookup of handler p's request found no session, or a session
\* whose profile is missing or disabled
Rejected(r) == r.session # Unset /\ ~Authenticated(r)

\* C26: authentication precedes method routing. A request of any method whose
\* tenant has no session or no enabled profile is answered with what
\* getMerchantSession threw, as an error envelope of code -32603: never a
\* result, never -32601 or -32602, and nothing of the method has run.
C26_AuthPrecedesRouting ==
  \A p \in Procs :
    LET r == proc[p] IN
    Rejected(r) =>
      /\ r.pc = "done"
      /\ r.response = catch(getMerchantSession(r.session))
      /\ ErrorCode(r.response) = -32603
      /\ ~HasResult(r.response)
      /\ r.fetches = 0 /\ r.interactionId = 0 /\ r.checkout = NoCheckout

\* a method that is not registered, sent for a tenant whose agent is disabled,
\* is answered with the authentication error and not with method-not-found
C26_Witness ==
  \E p \in Procs :
    LET r == proc[p] IN
    /\ SeenDisabled(r) /\ r.pc = "done"
    /\ r.body.kind = "object" /\ r.body.method = "bogus/method"
    /\ ErrorCode(r.response) = -32603


(* ----------------------- claims on frame effects ----------------------- *)
\* the request is no tools/call: one of the four other methods or an unknown one
NotToolsCall(r) == r.body.kind = "object" /\ r.body.method # "tools/call"

\* handler p takes a step
Steps(p) == proc'[p] # proc[p] /\ proc'[p].pc # "idle"

\* the step writes nothing: no table changes and nothing is sent upstream
WritesNothing(p) ==
  /\ interactions' = interactions /\ nextId' = nextId
  /\ missed' = missed
  /\ sessions' = sessions /\ profiles' = profiles
  /\ carts' = carts
  /\ proc'[p].fetches = 0

\* C27: a request of the methods initialize, tools/list, resources/list and
\* resources/read, of an unknown method, or rejected at authentication creates
\* and modifies no AgentInteraction and no MissedOpportunity row and makes no
\* upstream call: every step of its handler leaves the tables as they are.
C27_ReadOnlyMethods ==
  [][ \A p \in Procs :
        (Steps(p) /\ (NotToolsCall(proc'[p]) \/ Rejected(proc'[p]))) =>
          /\ WritesNothing(p)
          /\ proc'[p].interactionId = 0
          /\ proc'[p].pc \in {"auth", "done"}
    ]_vars

\* resources/list of an enabled tenant has been answered with a result and
\* nothing was stored
C27_Witness ==
  \E p \in Procs :
    LET r == proc[p] IN
    /\ NotToolsCall(r) /\ r.body.method = "resources/list"
    /\ Authenticated(r) /\ r.pc = "done" /\ HasResult(r.response)
    /\ interactions = <<>> /\ nextId = 1 /\ carts = <<>>


\* handler p's search_products call has found at least one product
FoundProducts(r) ==
  IsToolsCall(r) /\ r.body.params.name = "search_products" /\ r.found > 0

\* C28: a search_products call that finds at least one product leaves every
\* MissedOpportunity row as it is, and so does every step of every other tool:
\* a handler changes a MissedOpportunity row only in the tracking step of a
\* search_products call that found nothing.
C28_MissedOnlyByEmptySearch ==
  [][ \A p \in Procs :
        Steps(p) =>
          /\ FoundProducts(proc'[p]) => missed' = missed
          /\ missed' # missed =>
               /\ IsToolsCall(proc[p])
               /\ proc[p].body.params.name = "search_products"
               /\ proc[p].pc = "search_missed"
               /\ proc[p].found = 0
    ]_vars

\* a search that found a product has been answered and no miss is recorded
C28_Witness ==
  \E p \in Procs :
    /\ FoundProducts(proc[p])
    /\ ToolCallAnswered(p)
    /\ \A s \in Shops : MissedOf(s, missed) = NoMissed


(* -------------------- claims on concurrent writers --------------------- *)
\* both writers of interaction i have completed: create_checkout handler p
\* has returned its checkout, and an order webhook has updated the row
BothWrote(p, i) ==
  /\ InCheckout(p) /\ ToolCallAnswered(p) /\ proc[p].interactionId = i
  /\ \E o \in DOMAIN orders :
       orders[o].outcome = "updated" /\ orders[o].interaction_id = i

\* C29: the two writers of one AgentInteraction do not overwrite each other.
\* Whichever of the phase-2 update and the order webhook's update runs first,
\* once both have run the row carries checkoutId, checkoutUrl and
\* potentialValue of the checkout as well as converted and orderId; no step
\* clears a stored checkout field or sets converted back to false.
C29_WritersDoNotOverwrite ==
  [][ /\ \A p \in Procs, i \in DOMAIN interactions' :
           BothWrote(p, i)' =>
             /\ WithCheckout(interactions'[i], proc'[p].checkout)
             /\ interactions'[i].converted
             /\ interactions'[i].orderId = "1001"
             /\ interactions'[i].orderValue # NaN
      /\ \A i \in (DOMAIN interactions) \cap (DOMAIN interactions') :
           /\ interactions[i].converted =>
                /\ interactions'[i].converted
                /\ interactions'[i].orderId # Undefined
           /\ interactions[i].checkoutId # 0 =>
                /\ interactions'[i].checkoutId = interactions[i].checkoutId
                /\ interactions'[i].checkoutUrl = interactions[i].checkoutUrl
                /\ interactions'[i].potentialValue = interactions[i].potentialValue
    ]_vars

\* both writers have written one interaction
C29_Witness ==
  \E p \in Procs, i \in DOMAIN interactions :
    /\ BothWrote(p, i)
    /\ interactions[i].converted
    /\ interactions[i].checkoutId = proc[p].checkout.checkoutId


(* --------------------- claims on the cart sent upstream ---------------- *)
\* the cart c that create_checkout handler p has had created
SentCart(p, c) == InCheckout(p) /\ MadeCart(p, c)

====
